---------------------------- MODULE Spec2Model ----------------------------
(***************************************************************************)
(* MIR rewrite passes of noria-server/mir/src/rewrite.rs.                  *)
(*                                                                         *)
(* The query graph is an arena: a sequence of node records addressed by    *)
(* their index.  Edges (ancestors, children, a Reuse node's target) are    *)
(* indices, so a change made through one edge is seen through every other. *)
(*                                                                         *)
(* A node name is the record [pre, id, suf]: it stands for the string      *)
(*      pre ++ "n<id>" ++ "_matid" repeated suf times                      *)
(* with pre one of "", "sp_", "spu_".  starts_with and ends_with are       *)
(* computed on that structure, format!("{}_matid", name) adds one suffix.  *)
(***************************************************************************)
EXTENDS Integers, Sequences, FiniteSets, TLC

VARIABLES
    nodes,      \* the arena: Seq of node records
    leaf,       \* q.leaf, an index into nodes
    queue,      \* the work-list of the running pass (a Vec used as a stack)
    pc,         \* "idle", "mat", "matdone", "pull", "pulldone" or "panic"
    run,        \* number of the pass run in progress or just finished
    sv,         \* schema_version given to force_materialization_above_secunion
    mapping,    \* table_mapping of pull_required_base_columns
    sec,        \* the sec flag of pull_required_base_columns
    input,      \* the arena as it was handed to the first run
    nodes0,     \* the arena as it was when the current run started
    last,       \* what the last loop iteration did (history, read by the properties)
    base_name,  \* base_name given to make_universe_naming_consistent
    base_node   \* base_node of make_universe_naming_consistent

vars == <<nodes, leaf, queue, pc, run, sv, mapping, sec, input, nodes0, last,
          base_name, base_node>>

-----------------------------------------------------------------------------
(* Bounds of the model *)

\* largest number of nodes of an enumerated input graph of the
\* materialization-insertion pass (leaf included)
MaxNodes == 4

\* largest number of nodes of an enumerated input graph of the column-pull
\* pass (leaf included)
MaxPullNodes == 3

\* number of consecutive runs of a pass on the same graph
MaxRuns == 2

\* largest arena up to which a run that does not terminate is followed
MaxArena == 9

-----------------------------------------------------------------------------
(* Sequence helpers *)

Range(s) == {s[i] : i \in 1..Len(s)}

Contains(s, x) == \E i \in 1..Len(s) : s[i] = x

RemoveAt(s, i) == SubSeq(s, 1, i - 1) \o SubSeq(s, i + 1, Len(s))

\* the nodes reached from the set S through ancestor edges, S included
RECURSIVE AncestorClosure(_, _)
AncestorClosure(N, S) ==
    LET S2 == S \cup UNION {Range(N[i].anc) : i \in S}
    IN  IF S2 = S THEN S ELSE AncestorClosure(N, S2)

\* the nodes of the query: what a work-list seeded with n walks over
Reachable(N, n) == AncestorClosure(N, {n})

-----------------------------------------------------------------------------
(* Entity model *)

Name(pre, id, suf) == [pre |-> pre, id |-> id, suf |-> suf]

\* name.starts_with("sp_")
IsSecurityBoundary(name) == name.pre = "sp_"

\* name.starts_with("spu_")
IsSecurityUnion(name) == name.pre = "spu_"

\* name.ends_with("_matid")
HasMatidMarker(name) == name.suf > 0

\* format!("{}_matid", name)
MatidName(name) == [name EXCEPT !.suf = @ + 1]

\* format!("{}_v{}", name, from_version)
versioned_name(n) == <<n.name, n.ver>>

\* a column: its name and its table qualifier, NoTable when it has none
NoTable == "none"

Col(name, table) == [name |-> name, table |-> table]

\* table_mapping: Option<&HashMap<(name, Option<table>), table>>; a key is
\* the column record that carries the name and the qualifier
NoMap == [some |-> FALSE, map |-> <<>>]

SomeMap(m) == [some |-> TRUE, map |-> m]

MkNode(name, ver, kind, mat, target, cols, refs, anc, chl) ==
    [name |-> name, ver |-> ver, kind |-> kind, mat |-> mat, target |-> target,
     cols |-> cols, refs |-> refs, anc |-> anc, chl |-> chl]

\* MirNode::add_child
add_child(N, p, c) == [N EXCEPT ![p].chl = Append(@, c)]

\* MirNode::add_ancestor
add_ancestor(N, c, a) == [N EXCEPT ![c].anc = Append(@, a)]

\* index of the first element of ids whose versioned name is vn, 0 if none
PositionOf(N, ids, vn) ==
    IF \E i \in 1..Len(ids) : versioned_name(N[ids[i]]) = vn
    THEN CHOOSE i \in 1..Len(ids) :
            /\ versioned_name(N[ids[i]]) = vn
            /\ \A j \in 1..(i - 1) : versioned_name(N[ids[j]]) # vn
    ELSE 0

\* MirNode::remove_child: drops the first child with c's versioned name
remove_child(N, p, c) ==
    LET idx == PositionOf(N, N[p].chl, versioned_name(N[c]))
    IN  IF idx = 0 THEN N ELSE [N EXCEPT ![p].chl = RemoveAt(@, idx)]

\* MirNode::remove_ancestor: drops the first ancestor with a's versioned name
remove_ancestor(N, c, a) ==
    LET idx == PositionOf(N, N[c].anc, versioned_name(N[a]))
    IN  IF idx = 0 THEN N ELSE [N EXCEPT ![c].anc = RemoveAt(@, idx)]

\* MirNode::reuse: a Reuse node wrapping `node`, wired to nothing
MirNode_reuse(N, node, v) ==
    MkNode(N[node].name, v, "Reuse", FALSE, node, N[node].cols, <<>>, <<>>, <<>>)

\* MirNode::new: the node is appended to the arena and registered as a child
\* of each of its ancestors
RECURSIVE RegisterChild(_, _, _)
RegisterChild(N, ancs, c) ==
    IF ancs = <<>> THEN N
    ELSE RegisterChild(add_child(N, Head(ancs), c), Tail(ancs), c)

MirNode_new(N, name, v, cols, kind, mat, anc, chl) ==
    RegisterChild(Append(N, MkNode(name, v, kind, mat, 0, cols, <<>>, anc, chl)),
                  anc, Len(N) + 1)

-----------------------------------------------------------------------------
(* Predicate library *)

RECURSIVE has_column(_, _, _)
RECURSIVE AnyAncestorHasColumn(_, _, _)
AnyAncestorHasColumn(N, ancs, c) ==
    IF ancs = <<>> THEN FALSE
    ELSE IF has_column(N, Head(ancs), c) THEN TRUE
    ELSE AnyAncestorHasColumn(N, Tail(ancs), c)

\* has_column with a node without ancestors taken to emit every column
has_column_from_any_root(N, n, c) ==
    IF Contains(N[n].cols, c) THEN TRUE
    ELSE IF N[n].anc = <<>> THEN TRUE
    ELSE AnyAncestorHasColumn(N, N[n].anc, c)

has_column(N, n, c) ==
    IF Contains(N[n].cols, c) THEN TRUE
    ELSE AnyAncestorHasColumn(N, N[n].anc, c)

\* check_materialized with the pass-through arm taken for materialized: a
\* Project or Filter answers true without looking at its ancestor
RECURSIVE check_materialized_no_recursion(_, _)
check_materialized_no_recursion(N, mnr) ==
    IF IsSecurityBoundary(N[mnr].name) THEN "F"
    ELSE IF N[mnr].kind \in {"Aggregation", "Base", "TopK", "Join", "Project", "Filter"}
         THEN "T"
    ELSE IF N[mnr].kind = "Reuse"
         THEN check_materialized_no_recursion(N, N[mnr].target)
    ELSE "F"

\* check_materialized with a Project or Filter without ancestors taken as
\* unmaterialized instead of indexing its ancestor list
RECURSIVE check_materialized_checked(_, _)
check_materialized_checked(N, mnr) ==
    IF IsSecurityBoundary(N[mnr].name) THEN "F"
    ELSE IF N[mnr].kind \in {"Aggregation", "Base", "TopK", "Join"} THEN "T"
    ELSE IF N[mnr].kind \in {"Project", "Filter"}
         THEN IF N[mnr].anc = <<>> THEN "F"
              ELSE check_materialized_checked(N, N[mnr].anc[1])
    ELSE IF N[mnr].kind = "Reuse"
         THEN check_materialized_checked(N, N[mnr].target)
    ELSE "F"

\* "T" (true), "F" (false) or "P": the index ancestors[0] is out of bounds
\* and the call panics
RECURSIVE check_materialized(_, _)
check_materialized(N, mnr) ==
    IF IsSecurityBoundary(N[mnr].name) THEN "F"
    ELSE IF N[mnr].kind \in {"Aggregation", "Base", "TopK", "Join"} THEN "T"
    ELSE IF N[mnr].kind \in {"Project", "Filter"}
         THEN IF N[mnr].anc = <<>> THEN "P"
              ELSE check_materialized(N, N[mnr].anc[1])
    ELSE IF N[mnr].kind = "Reuse" THEN check_materialized(N, N[mnr].target)
    ELSE "F"

\* first child of `node` whose name ends with "_matid"; 0 stands for None
FirstMatidChild(N, node) ==
    LET chl == N[node].chl
    IN  IF \E i \in 1..Len(chl) : HasMatidMarker(N[chl[i]].name)
        THEN chl[CHOOSE i \in 1..Len(chl) :
                    /\ HasMatidMarker(N[chl[i]].name)
                    /\ \A j \in 1..(i - 1) : ~HasMatidMarker(N[chl[j]].name)]
        ELSE 0

RECURSIVE check_reuse_for_identity(_, _)
check_reuse_for_identity(N, node) ==
    IF FirstMatidChild(N, node) # 0 THEN FirstMatidChild(N, node)
    ELSE IF N[node].kind = "Reuse" THEN check_reuse_for_identity(N, N[node].target)
    ELSE 0

-----------------------------------------------------------------------------
(* Materialization-insertion pass: force_materialization_above_secunion *)

\* the existing identity node found for a Reuse ancestor, 0 if none
\* (or if the ancestor is no Reuse)
ReuseHit(N, ar) ==
    IF N[ar].kind = "Reuse" THEN check_reuse_for_identity(N, N[ar].target) ELSE 0

\* the pairs (ancestor, existing identity) collected in to_reuse
ToReuse(N, mnr) ==
    LET Hit(ar) == ReuseHit(N, ar) # 0
        hits == SelectSeq(N[mnr].anc, Hit)
    IN  [i \in 1..Len(hits) |-> <<hits[i], ReuseHit(N, hits[i])>>]

\* to_rewrite with the loop left after the first unmaterialized ancestor
ToRewriteFirstOnly(N, mnr) ==
    LET Unmat(ar) == ReuseHit(N, ar) = 0 /\ check_materialized(N, ar) = "F"
        all == SelectSeq(N[mnr].anc, Unmat)
    IN  IF all = <<>> THEN <<>> ELSE <<all[1]>>

\* to_rewrite with the negation of check_materialized dropped
ToRewriteMaterialized(N, mnr) ==
    LET Mat(ar) == ReuseHit(N, ar) = 0 /\ check_materialized(N, ar) = "T"
    IN  SelectSeq(N[mnr].anc, Mat)

\* the ancestors collected in to_rewrite
ToRewrite(N, mnr) ==
    LET Unmat(ar) == ReuseHit(N, ar) = 0 /\ check_materialized(N, ar) = "F"
    IN  SelectSeq(N[mnr].anc, Unmat)

\* the classification loop calls check_materialized on a Project or Filter
\* chain that ends in a node without ancestors
ClassifyPanics(N, mnr) ==
    \E i \in 1..Len(N[mnr].anc) :
        /\ ReuseHit(N, N[mnr].anc[i]) = 0
        /\ check_materialized(N, N[mnr].anc[i]) = "P"

\* one iteration of the to_reuse loop
SpliceReuse(N, mnr, ar, cr, v) ==
    LET N1 == remove_child(N, ar, mnr)
        N2 == remove_ancestor(N1, mnr, ar)
        new_id == Len(N2) + 1
        N3 == Append(N2, MirNode_reuse(N2, cr, v))
        N4 == add_child(N3, ar, new_id)
        N5 == add_ancestor(N4, new_id, ar)
        N6 == add_child(N5, new_id, mnr)
    IN  add_ancestor(N6, mnr, new_id)

\* one iteration of the to_rewrite loop
InsertIdentity(N, mnr, ar, v) ==
    LET N1 == remove_child(N, ar, mnr)
        N2 == remove_ancestor(N1, mnr, ar)
        new_id == Len(N2) + 1
        N3 == MirNode_new(N2, MatidName(N2[ar].name), v, N2[ar].cols,
                          "Identity", TRUE, <<ar>>, <<mnr>>)
        N4 == IF N3[ar].kind = "Reuse" THEN add_child(N3, N3[ar].target, new_id)
              ELSE N3
    IN  add_ancestor(N4, mnr, new_id)

RECURSIVE ApplyReuse(_, _, _, _)
ApplyReuse(N, mnr, pairs, v) ==
    IF pairs = <<>> THEN N
    ELSE ApplyReuse(SpliceReuse(N, mnr, pairs[1][1], pairs[1][2], v),
                    mnr, Tail(pairs), v)

RECURSIVE ApplyRewrite(_, _, _, _)
ApplyRewrite(N, mnr, ars, v) ==
    IF ars = <<>> THEN N
    ELSE ApplyRewrite(InsertIdentity(N, mnr, Head(ars), v), mnr, Tail(ars), v)

\* what the pass does to a security union popped from the work-list
RewriteUnion(N, mnr, v) ==
    ApplyRewrite(ApplyReuse(N, mnr, ToReuse(N, mnr), v), mnr, ToRewrite(N, mnr), v)

\* the passes other than the naming pass take no base name
NoName == Name("", 0, 0)

NoStep == [op |-> "none", u |-> 0, reuse |-> <<>>, rewrite |-> <<>>, base |-> 0]

Top(q) == q[Len(q)]
Pop(q) == SubSeq(q, 1, Len(q) - 1)

\* the pass is called: the work-list is seeded with the leaf
MatCall ==
    /\ pc \in {"idle", "matdone"}
    /\ run < MaxRuns
    /\ pc' = "mat"
    /\ run' = run + 1
    /\ queue' = <<leaf>>
    /\ nodes0' = nodes
    /\ last' = NoStep
    /\ UNCHANGED <<nodes, leaf, sv, mapping, sec, input, base_name, base_node>>

\* a loop iteration on a node that is no security union
MatVisitPlain ==
    /\ pc = "mat" /\ queue # <<>>
    /\ ~IsSecurityUnion(nodes[Top(queue)].name)
    /\ queue' = Pop(queue) \o nodes[Top(queue)].anc
    /\ last' = [NoStep EXCEPT !.op = "plain", !.u = Top(queue)]
    /\ UNCHANGED <<nodes, leaf, pc, run, sv, mapping, sec, input, nodes0, base_name, base_node>>

\* the nodes the current run has created
Created == (Len(nodes0) + 1)..Len(nodes)

\* the popped node was inserted by this run, is treated as a security union
\* because of the name it inherited, and gets a further node inserted above
Regenerating ==
    /\ pc = "mat" /\ queue # <<>>
    /\ Top(queue) \in Created
    /\ IsSecurityUnion(nodes[Top(queue)].name)
    /\ ~ClassifyPanics(nodes, Top(queue))
    /\ ToRewrite(nodes, Top(queue)) \o ToReuse(nodes, Top(queue)) # <<>>

\* a loop iteration on a security union. The code takes it whatever the size
\* of the graph; of a run that keeps inserting nodes above the nodes it
\* inserted, only the iterations within MaxArena nodes are followed
MatVisitUnion ==
    /\ pc = "mat" /\ queue # <<>>
    /\ IsSecurityUnion(nodes[Top(queue)].name)
    /\ ~ClassifyPanics(nodes, Top(queue))
    /\ Regenerating => Len(RewriteUnion(nodes, Top(queue), sv)) <= MaxArena
    /\ nodes' = RewriteUnion(nodes, Top(queue), sv)
    /\ queue' = Pop(queue) \o nodes'[Top(queue)].anc
    /\ last' = [op |-> "union", u |-> Top(queue),
                reuse |-> ToReuse(nodes, Top(queue)),
                rewrite |-> ToRewrite(nodes, Top(queue)),
                base |-> Len(nodes)]
    /\ UNCHANGED <<leaf, pc, run, sv, mapping, sec, input, nodes0, base_name, base_node>>

\* a loop iteration on a security union whose classification panics
MatPanic ==
    /\ pc = "mat" /\ queue # <<>>
    /\ IsSecurityUnion(nodes[Top(queue)].name)
    /\ ClassifyPanics(nodes, Top(queue))
    /\ pc' = "panic"
    /\ queue' = Pop(queue)
    /\ last' = [NoStep EXCEPT !.op = "panic", !.u = Top(queue)]
    /\ UNCHANGED <<nodes, leaf, run, sv, mapping, sec, input, nodes0, base_name, base_node>>

\* the work-list is empty: the pass returns
MatReturn ==
    /\ pc = "mat" /\ queue = <<>>
    /\ pc' = "matdone"
    /\ UNCHANGED <<nodes, leaf, queue, run, sv, mapping, sec, input, nodes0, last,
                 base_name, base_node>>

-----------------------------------------------------------------------------
(* Input graphs of the materialization-insertion pass *)

\* children lists that mirror the ancestor lists
RECURSIVE ChildrenOf(_, _, _)
ChildrenOf(g, p, c) ==
    IF c > Len(g) THEN <<>>
    ELSE LET IsP(a) == a = p
         IN  [i \in 1..Len(SelectSeq(g[c].anc, IsP)) |-> c] \o ChildrenOf(g, p, c + 1)

WithChildren(g) == [p \in 1..Len(g) |-> [g[p] EXCEPT !.chl = ChildrenOf(g, p, 1)]]

\* the output column of input node i
ColNames == <<"c1", "c2", "c3", "c4", "c5", "c6">>

OwnCols(i) == <<Col(ColNames[i], NoTable)>>

AncLists(m) == {<<j>> : j \in 1..m} \cup {<<j, k>> : j \in 1..m, k \in 1..m}

\* a security union at position Len(g) + 1
UnionChoices(g) ==
    {MkNode(Name("spu_", Len(g) + 1, 0), 0, "Union", FALSE, 0, OwnCols(Len(g) + 1),
            <<>>, a, <<>>) : a \in AncLists(Len(g))}

\* a Reuse node at position Len(g) + 1: it carries its target's name and columns
ReuseChoices(g) ==
    {MkNode(g[j].name, 0, "Reuse", FALSE, j, g[j].cols, <<>>, <<>>, <<>>) :
        j \in 1..Len(g)}

\* an identity node that an earlier run of the pass (on another query) put
\* below node j: the pass does so only for a node j that check_materialized
\* rejects
MatidChoices(g) ==
    {MkNode(MatidName(g[j].name), 0, "Identity", TRUE, 0, g[j].cols, <<>>, <<j>>, <<>>) :
        j \in {k \in 1..Len(g) : check_materialized(g, k) = "F"}}

\* the nodes that may stand at position Len(g) + 1 above the leaf
MatChoices(g) ==
    LET i == Len(g) + 1
        m == Len(g)
    IN  {MkNode(Name(p, i, 0), 0, "Base", FALSE, 0, OwnCols(i), <<>>, <<>>, <<>>) :
            p \in {"", "sp_"}}
        \cup {MkNode(Name("", i, 0), 0, "Project", FALSE, 0, OwnCols(i), <<>>, <<>>, <<>>)}
        \cup {MkNode(Name(p, i, 0), 0, "Project", FALSE, 0, OwnCols(i), <<>>, <<j>>, <<>>) :
                p \in {"", "sp_"}, j \in 1..m}
        \cup {MkNode(Name("", i, 0), 0, k, FALSE, 0, OwnCols(i), <<>>, <<j>>, <<>>) :
                k \in {"Filter", "Identity", "Aggregation"}, j \in 1..m}
        \cup UnionChoices(g)
        \cup ReuseChoices(g)
        \cup MatidChoices(g)

LeafChoices(g) ==
    {MkNode(Name("", Len(g) + 1, 0), 0, "Leaf", FALSE, 0, <<>>, <<>>, a, <<>>) :
        a \in AncLists(Len(g))}

RECURSIVE Bodies(_)
Bodies(k) ==
    IF k = 0 THEN {<<>>}
    ELSE UNION {{Append(g, n) : n \in MatChoices(g)} : g \in Bodies(k - 1)}

\* node i feeds a later node: it is an ancestor or a Reuse target of one
Used(g, i) ==
    \/ {c \in (i + 1)..Len(g) : Contains(g[c].anc, i) \/ g[c].target = i} # {}
    \/ HasMatidMarker(g[i].name)

\* a graph of the family: no node is left unconnected, there is a security
\* union for the pass to work on, and a Reuse node wraps a node of another
\* query (so that the names within the query are distinct)
Connected(g) ==
    /\ \A i \in 1..(Len(g) - 1) : Used(g, i)
    /\ {i \in 1..Len(g) : IsSecurityUnion(g[i].name)} # {}
    /\ \A i \in 1..Len(g) :
          g[i].kind = "Reuse" => g[i].target \notin Reachable(g, Len(g))

\* g is an input graph of the pass:
\*  - a graph of at most MaxNodes nodes, or
\*  - two security unions (nodes 3 and 4) below a Reuse node (node 2, wrapping
\*    node 1) and a leaf, or
\*  - a security union below Reuse nodes (nodes 3 and 4) of a node that an
\*    earlier run gave an identity node (node 2), or
\*  - a security union below a chain of two operators and a base table, or
\*  - two security unions (nodes 5 and 6), one below a Reuse node (node 3) of
\*    a node that an earlier run gave an identity node (node 2), the other
\*    below a Reuse node (node 4) of that Reuse node, or
\*  - a security union (node 4) below a Reuse node (node 3) of a security
\*    union of another query (node 2), or
\*  - a security union below a Filter node without ancestors
IsMatGraph(g) ==
    \/ \E k \in 1..(MaxNodes - 1) : \E b \in Bodies(k) : \E l \in LeafChoices(b) :
          /\ Connected(Append(b, l))
          /\ g = WithChildren(Append(b, l))
    \/ \E t \in MatChoices(<<>>) : \E r \in ReuseChoices(<<t>>) :
       \E u1 \in UnionChoices(<<t, r>>) : \E u2 \in UnionChoices(<<t, r, u1>>) :
       \E l \in LeafChoices(<<t, r, u1, u2>>) :
          /\ Connected(<<t, r, u1, u2, l>>)
          /\ g = WithChildren(<<t, r, u1, u2, l>>)
    \/ \E t \in MatChoices(<<>>) : \E m \in MatidChoices(<<t>>) :
       \E r2 \in ReuseChoices(<<t, m>>) : \E r1 \in ReuseChoices(<<t, m, r2>>) :
       \E u \in UnionChoices(<<t, m, r2, r1>>) :
       \E l \in {x \in LeafChoices(<<t, m, r2, r1, u>>) : x.anc = <<5>>} :
          /\ Connected(<<t, m, r2, r1, u, l>>)
          /\ g = WithChildren(<<t, m, r2, r1, u, l>>)
    \/ \E t \in {n \in MatChoices(<<>>) : n.kind = "Base"} :
       \E f \in {n \in MatChoices(<<t>>) : n.anc = <<1>>} :
       \E p \in {n \in MatChoices(<<t, f>>) : n.anc = <<2>>} :
       \E u \in {n \in UnionChoices(<<t, f, p>>) : n.anc = <<3>>} :
       \E l \in {x \in LeafChoices(<<t, f, p, u>>) : x.anc = <<4>>} :
          g = WithChildren(<<t, f, p, u, l>>)
    \/ \E t \in MatChoices(<<>>) : \E m \in MatidChoices(<<t>>) :
       \E r1 \in {n \in ReuseChoices(<<t, m>>) : n.target = 1} :
       \E r2 \in {n \in ReuseChoices(<<t, m, r1>>) : n.target = 3} :
       \E u1 \in {n \in UnionChoices(<<t, m, r1, r2>>) : n.anc = <<3>>} :
       \E u2 \in {n \in UnionChoices(<<t, m, r1, r2, u1>>) : n.anc = <<4>>} :
       \E l \in {x \in LeafChoices(<<t, m, r1, r2, u1, u2>>) :
                    x.anc \in {<<5, 6>>, <<6, 5>>}} :
          g = WithChildren(<<t, m, r1, r2, u1, u2, l>>)
    \/ \E t \in {n \in MatChoices(<<>>) : n.kind = "Base"} :
       \E u0 \in UnionChoices(<<t>>) :
       \E r \in {n \in ReuseChoices(<<t, u0>>) : n.target = 2} :
       \E u \in {n \in UnionChoices(<<t, u0, r>>) : n.anc \in {<<3>>, <<3, 3>>}} :
       \E l \in {x \in LeafChoices(<<t, u0, r, u>>) : x.anc = <<4>>} :
          g = WithChildren(<<t, u0, r, u, l>>)
    \/ \E t \in {MkNode(Name("", 1, 0), 0, "Filter", FALSE, 0, OwnCols(1),
                         <<>>, <<>>, <<>>)} :
       \E u \in UnionChoices(<<t>>) :
       \E l \in {x \in LeafChoices(<<t, u>>) : x.anc = <<2>>} :
          g = WithChildren(<<t, u, l>>)

MatInit ==
    /\ IsMatGraph(nodes)
    /\ leaf = Len(nodes)
    /\ queue = <<>>
    /\ pc = "idle"
    /\ run = 0
    /\ sv \in {0, 1}
    /\ mapping = NoMap
    /\ sec = FALSE
    /\ input = nodes
    /\ nodes0 = nodes
    /\ last = NoStep
    /\ base_name = NoName
    /\ base_node = 0

MatNext == MatCall \/ MatVisitPlain \/ MatVisitUnion \/ MatPanic \/ MatReturn

SpecMat == MatInit /\ [][MatNext]_vars

-----------------------------------------------------------------------------
(* Column-pull pass: pull_required_base_columns *)

\* MirNode::add_column: the column is appended to the node's output columns
add_column(N, n, c) == [N EXCEPT ![n].cols = Append(@, c)]

\* MirNode::referenced_columns: the output columns, then the columns the
\* operator uses without projecting them
referenced_columns(N, n) ==
    LET Extra(c) == ~Contains(N[n].cols, c)
    IN  N[n].cols \o SelectSeq(N[n].refs, Extra)

\* needed_columns without the filter on the ancestors' columns
needed_columns_unfiltered(N, mn) == referenced_columns(N, mn)

\* needed_columns computed from the columns the operator uses without
\* projecting them, leaving out the node's output columns
needed_columns_of_operator(N, mn) ==
    LET Missing(c) ==
            ~\E i \in 1..Len(N[mn].anc) : Contains(N[N[mn].anc[i]].cols, c)
    IN  SelectSeq(N[mn].refs, Missing)

\* the referenced columns that no immediate ancestor emits
needed_columns(N, mn) ==
    LET Missing(c) ==
            ~\E i \in 1..Len(N[mn].anc) : Contains(N[N[mn].anc[i]].cols, c)
    IN  SelectSeq(referenced_columns(N, mn), Missing)

\* the test of the mapping made for qualified columns only
SkippedQualifiedOnly(map, c) ==
    map.some /\ c.table # NoTable /\ c \in DOMAIN map.map

\* map.contains_key(&(c.name, c.table)); with no mapping nothing is skipped
SkippedByMapping(map, c) == map.some /\ c \in DOMAIN map.map

\* the loop over needed_columns with has_column left out of the arm for
\* columns without a table qualifier when a mapping is supplied
RECURSIVE PullIntoUncheckedUnqualified(_, _, _, _, _)
PullIntoUncheckedUnqualified(N, ancestor, cs, found, map) ==
    IF cs = <<>> THEN [N |-> N, found |-> found]
    ELSE IF /\ ~SkippedByMapping(map, Head(cs))
            /\ ~Contains(found, Head(cs))
            /\ \/ map.some /\ Head(cs).table = NoTable
               \/ has_column(N, ancestor, Head(cs))
         THEN PullIntoUncheckedUnqualified(add_column(N, ancestor, Head(cs)),
                                          ancestor, Tail(cs),
                                          Append(found, Head(cs)), map)
         ELSE PullIntoUncheckedUnqualified(N, ancestor, Tail(cs), found, map)

\* the loop over needed_columns without the test of `found`
RECURSIVE PullIntoWithoutFound(_, _, _, _, _)
PullIntoWithoutFound(N, ancestor, cs, found, map) ==
    IF cs = <<>> THEN [N |-> N, found |-> found]
    ELSE IF /\ ~SkippedByMapping(map, Head(cs))
            /\ has_column(N, ancestor, Head(cs))
         THEN PullIntoWithoutFound(add_column(N, ancestor, Head(cs)), ancestor,
                                   Tail(cs), Append(found, Head(cs)), map)
         ELSE PullIntoWithoutFound(N, ancestor, Tail(cs), found, map)

\* the loop over needed_columns without the call of has_column
RECURSIVE PullIntoUnresolved(_, _, _, _, _)
PullIntoUnresolved(N, ancestor, cs, found, map) ==
    IF cs = <<>> THEN [N |-> N, found |-> found]
    ELSE IF /\ ~SkippedByMapping(map, Head(cs))
            /\ ~Contains(found, Head(cs))
         THEN PullIntoUnresolved(add_column(N, ancestor, Head(cs)), ancestor,
                                 Tail(cs), Append(found, Head(cs)), map)
         ELSE PullIntoUnresolved(N, ancestor, Tail(cs), found, map)

\* the loop over needed_columns for one ancestor
RECURSIVE PullInto(_, _, _, _, _)
PullInto(N, ancestor, cs, found, map) ==
    IF cs = <<>> THEN [N |-> N, found |-> found]
    ELSE IF /\ ~SkippedByMapping(map, Head(cs))
            /\ ~Contains(found, Head(cs))
            /\ has_column(N, ancestor, Head(cs))
         THEN PullInto(add_column(N, ancestor, Head(cs)), ancestor, Tail(cs),
                       Append(found, Head(cs)), map)
         ELSE PullInto(N, ancestor, Tail(cs), found, map)

\* the loop over the ancestors of the popped node: the arena it leaves and
\* the ancestors it pushes
RECURSIVE PullAncestors(_, _, _, _, _, _)
PullAncestors(N, ancs, needed, found, pushed, map) ==
    IF ancs = <<>> THEN [N |-> N, pushed |-> pushed]
    ELSE IF N[Head(ancs)].anc = <<>>
         THEN PullAncestors(N, Tail(ancs), needed, found, pushed, map)
         ELSE LET r == PullInto(N, Head(ancs), needed, found, map)
              IN  PullAncestors(r.N, Tail(ancs), needed, r.found,
                                Append(pushed, Head(ancs)), map)

\* one iteration of the while loop on node mn
PullNode(N, mn, map) ==
    PullAncestors(N, N[mn].anc, needed_columns(N, mn), <<>>, <<>>, map)

\* the while loop with a visited-set: a node popped a second time is dropped
RECURSIVE PullLoopFrom(_, _, _, _)
PullLoopFrom(N, q, map, visited) ==
    IF q = <<>> THEN N
    ELSE IF Top(q) \in visited THEN PullLoopFrom(N, Pop(q), map, visited)
    ELSE PullLoopFrom(PullNode(N, Top(q), map).N,
                      Pop(q) \o PullNode(N, Top(q), map).pushed, map,
                      visited \cup {Top(q)})

PullLoopVisitingOnce(N, q, map) == PullLoopFrom(N, q, map, {})

\* the while loop run to its end from work-list q: the arena it leaves
RECURSIVE PullLoop(_, _, _)
PullLoop(N, q, map) ==
    IF q = <<>> THEN N
    ELSE PullLoop(PullNode(N, Top(q), map).N,
                  Pop(q) \o PullNode(N, Top(q), map).pushed, map)

\* the check of the secure universe without the look at the mapping
SecureAlone(s, map) == s

\* sec is set and there is no table mapping
SecureWithoutMapping(s, map) == s /\ ~map.some

\* the pass is called and passes the check of the secure universe
PullCall ==
    /\ pc \in {"idle", "pulldone"}
    /\ run < MaxRuns
    /\ ~SecureWithoutMapping(sec, mapping)
    /\ pc' = "pull"
    /\ run' = run + 1
    /\ queue' = <<leaf>>
    /\ nodes0' = nodes
    /\ last' = NoStep
    /\ UNCHANGED <<nodes, leaf, sv, mapping, sec, input, base_name, base_node>>

\* the pass is called in a secure universe without a table mapping
PullPanic ==
    /\ pc \in {"idle", "pulldone"}
    /\ run < MaxRuns
    /\ SecureWithoutMapping(sec, mapping)
    /\ pc' = "panic"
    /\ run' = run + 1
    /\ queue' = <<leaf>>
    /\ nodes0' = nodes
    /\ last' = NoStep
    /\ UNCHANGED <<nodes, leaf, sv, mapping, sec, input, base_name, base_node>>

\* a loop iteration
PullVisit ==
    /\ pc = "pull" /\ queue # <<>>
    /\ nodes' = PullNode(nodes, Top(queue), mapping).N
    /\ queue' = Pop(queue) \o PullNode(nodes, Top(queue), mapping).pushed
    /\ last' = [NoStep EXCEPT !.op = "pull", !.u = Top(queue)]
    /\ UNCHANGED <<leaf, pc, run, sv, mapping, sec, input, nodes0, base_name, base_node>>

\* the work-list is empty: the pass returns
PullReturn ==
    /\ pc = "pull" /\ queue = <<>>
    /\ pc' = "pulldone"
    /\ UNCHANGED <<nodes, leaf, queue, run, sv, mapping, sec, input, nodes0, last,
                 base_name, base_node>>

-----------------------------------------------------------------------------
(* Input graphs of the column-pull pass *)

ColA == Col("a", NoTable)
ColB == Col("b", "t")

ColLists == {<<>>, <<ColA>>, <<ColB>>, <<ColA, ColB>>}

RefLists == {<<>>, <<ColA>>, <<ColB>>}

\* the nodes that may stand at position Len(g) + 1 above the leaf: a base
\* table, an operator over one ancestor, a join of two
PullChoices(g) ==
    LET i == Len(g) + 1
        m == Len(g)
    IN  {MkNode(Name("", i, 0), 0, "Base", FALSE, 0, c, <<>>, <<>>, <<>>) :
            c \in ColLists \ {<<>>}}
        \cup {MkNode(Name("", i, 0), 0, IF r = <<>> THEN "Project" ELSE "Filter",
                     FALSE, 0, c, r, <<j>>, <<>>) :
                c \in ColLists, r \in RefLists, j \in 1..m}
        \cup {MkNode(Name("", i, 0), 0, "Join", FALSE, 0, c, <<>>, <<j, k>>, <<>>) :
                c \in ColLists, j \in 1..m, k \in 1..m}

PullLeafChoices(g) ==
    {MkNode(Name("", Len(g) + 1, 0), 0, "Leaf", FALSE, 0, <<>>, r, <<j>>, <<>>) :
        r \in RefLists, j \in 1..Len(g)}

RECURSIVE PullBodies(_)
PullBodies(k) ==
    IF k = 0 THEN {<<>>}
    ELSE UNION {{Append(g, n) : n \in PullChoices(g)} : g \in PullBodies(k - 1)}

\* an operator over node j alone
UnaryChoices(g, j) == {n \in PullChoices(g) : n.anc = <<j>>}

\* g is an input graph of the pass:
\*  - a graph of at most MaxPullNodes nodes, or
\*  - a chain of a base table, two operators and the leaf, or
\*  - a diamond: a base table, two projections of it, their join, the leaf
\*  - a base table, an operator, the join of the operator with itself, the
\*    leaf
\*  - a base table t, projections E of t and D of E, an operator X of D, the
\*    join of X and D, the leaf: the pass visits D before X pulls into D
\* A column a node uses need not be emitted by any ancestor.
IsPullGraph(g) ==
    \/ \E k \in 1..(MaxPullNodes - 1) : \E b \in PullBodies(k) :
       \E l \in PullLeafChoices(b) :
          /\ \A i \in 1..Len(b) : Used(Append(b, l), i)
          /\ g = WithChildren(Append(b, l))
    \/ \E t \in PullChoices(<<>>) : \E x \in UnaryChoices(<<t>>, 1) :
       \E y \in UnaryChoices(<<t, x>>, 2) :
       \E l \in {n \in PullLeafChoices(<<t, x, y>>) : n.anc = <<3>>} :
          g = WithChildren(<<t, x, y, l>>)
    \/ \E t \in PullChoices(<<>>) :
       \E x \in {n \in UnaryChoices(<<t>>, 1) : n.refs = <<>>} :
       \E y \in {n \in UnaryChoices(<<t, x>>, 1) : n.refs = <<>>} :
       \E j \in {n \in PullChoices(<<t, x, y>>) : n.anc \in {<<2, 3>>, <<3, 2>>}} :
       \E l \in {n \in PullLeafChoices(<<t, x, y, j>>) : n.anc = <<4>>} :
          g = WithChildren(<<t, x, y, j, l>>)
    \/ \E t \in PullChoices(<<>>) : \E x \in UnaryChoices(<<t>>, 1) :
       \E j \in {n \in PullChoices(<<t, x>>) : n.anc = <<2, 2>>} :
       \E l \in {n \in PullLeafChoices(<<t, x, j>>) : n.anc = <<3>>} :
          g = WithChildren(<<t, x, j, l>>)
    \/ \E t \in PullChoices(<<>>) :
       \E e \in {n \in UnaryChoices(<<t>>, 1) : n.refs = <<>>} :
       \E d \in {n \in UnaryChoices(<<t, e>>, 2) : n.refs = <<>>} :
       \E x \in UnaryChoices(<<t, e, d>>, 3) :
       \E j \in {n \in PullChoices(<<t, e, d, x>>) :
                    n.anc = <<4, 3>> /\ n.cols = <<>>} :
       \E l \in {n \in PullLeafChoices(<<t, e, d, x, j>>) : n.anc = <<5>>} :
          g = WithChildren(<<t, e, d, x, j, l>>)

Mappings ==
    {NoMap, SomeMap(<<>>), SomeMap([c \in {ColA} |-> "u"]), SomeMap([c \in {ColB} |-> "u"])}

PullInit ==
    /\ IsPullGraph(nodes)
    /\ leaf = Len(nodes)
    /\ queue = <<>>
    /\ pc = "idle"
    /\ run = 0
    /\ sv = 0
    /\ mapping \in Mappings
    /\ sec \in BOOLEAN
    /\ input = nodes
    /\ nodes0 = nodes
    /\ last = NoStep
    /\ base_name = NoName
    /\ base_node = 0

PullNext == PullCall \/ PullPanic \/ PullVisit \/ PullReturn

SpecPull == PullInit /\ [][PullNext]_vars

-----------------------------------------------------------------------------
(* Column-push pass: push_all_base_columns *)

\* q.roots: the nodes without ancestors, in arena order
RECURSIVE RootsFrom(_, _)
RootsFrom(N, i) ==
    IF i > Len(N) THEN <<>>
    ELSE (IF N[i].anc = <<>> THEN <<i>> ELSE <<>>) \o RootsFrom(N, i + 1)

roots(N) == RootsFrom(N, 1)

\* the loop over the popped node's columns for one child
RECURSIVE PushColumns(_, _, _)
PushColumns(N, child, cs) ==
    IF cs = <<>> THEN N
    ELSE IF ~Contains(N[child].cols, Head(cs))
         THEN PushColumns(add_column(N, child, Head(cs)), child, Tail(cs))
         ELSE PushColumns(N, child, Tail(cs))

\* the loop over the children without the test for the leaf
RECURSIVE PushChildrenIntoLeaf(_, _, _, _, _)
PushChildrenIntoLeaf(N, l, chl, columns, pushed) ==
    IF chl = <<>> THEN [N |-> N, pushed |-> pushed]
    ELSE PushChildrenIntoLeaf(PushColumns(N, Head(chl), columns), l, Tail(chl),
                              columns, Append(pushed, Head(chl)))

\* the loop over the children of the popped node: a child with the leaf's
\* versioned name is skipped, every other child gets the columns it lacks
\* and is pushed
RECURSIVE PushChildren(_, _, _, _, _)
PushChildren(N, l, chl, columns, pushed) ==
    IF chl = <<>> THEN [N |-> N, pushed |-> pushed]
    ELSE IF versioned_name(N[Head(chl)]) = versioned_name(N[l])
         THEN PushChildren(N, l, Tail(chl), columns, pushed)
         ELSE PushChildren(PushColumns(N, Head(chl), columns), l, Tail(chl),
                           columns, Append(pushed, Head(chl)))

\* one iteration of the while loop on node mn
PushNode(N, l, mn) == PushChildren(N, l, N[mn].chl, N[mn].cols, <<>>)

\* the pass is called: the work-list starts as q.roots
PushCall ==
    /\ pc \in {"idle", "pushdone"}
    /\ run < MaxRuns
    /\ pc' = "push"
    /\ run' = run + 1
    /\ queue' = roots(nodes)
    /\ nodes0' = nodes
    /\ last' = NoStep
    /\ UNCHANGED <<nodes, leaf, sv, mapping, sec, input, base_name, base_node>>

\* a loop iteration
PushVisit ==
    /\ pc = "push" /\ queue # <<>>
    /\ nodes' = PushNode(nodes, leaf, Top(queue)).N
    /\ queue' = Pop(queue) \o PushNode(nodes, leaf, Top(queue)).pushed
    /\ last' = [NoStep EXCEPT !.op = "push", !.u = Top(queue)]
    /\ UNCHANGED <<leaf, pc, run, sv, mapping, sec, input, nodes0, base_name, base_node>>

\* the work-list is empty: the pass returns
PushReturn ==
    /\ pc = "push" /\ queue = <<>>
    /\ pc' = "pushdone"
    /\ UNCHANGED <<nodes, leaf, queue, run, sv, mapping, sec, input, nodes0, last,
                 base_name, base_node>>

-----------------------------------------------------------------------------
(* Input graphs of the column-push pass *)

\* the node before the leaf may carry the query name, as the leaf does: node k
\* of g gets the leaf's name and version v (k = 0: no node is renamed)
CarryQueryName(g, k, v) ==
    IF k = 0 THEN g
    ELSE [g EXCEPT ![k].name = g[Len(g)].name, ![k].ver = v]

\* g is an input graph of the pass: a graph of the column-pull family in
\* which no operator uses columns it does not emit (the pass does not read
\* them), with at most one node carrying the leaf's name
IsPushGraph(g) ==
    \/ \E k \in 1..(MaxPullNodes - 1) :
       \E b \in {x \in PullBodies(k) : \A i \in 1..k : x[i].refs = <<>>} :
       \E l \in {x \in PullLeafChoices(b) : x.refs = <<>>} :
       \E r \in 0..k : \E v \in {0, 1} :
          /\ \A i \in 1..Len(b) : Used(Append(b, l), i)
          /\ r = 0 => v = 0
          /\ g = CarryQueryName(WithChildren(Append(b, l)), r, v)
    \/ \E t \in PullChoices(<<>>) :
       \E x \in {n \in UnaryChoices(<<t>>, 1) : n.refs = <<>>} :
       \E y \in {n \in UnaryChoices(<<t, x>>, 1) : n.refs = <<>>} :
       \E j \in {n \in PullChoices(<<t, x, y>>) : n.anc \in {<<2, 3>>, <<3, 2>>}} :
       \E l \in {n \in PullLeafChoices(<<t, x, y, j>>) : n.anc = <<4>> /\ n.refs = <<>>} :
       \E r \in {0, 3, 4} : \E v \in {0, 1} :
          /\ r = 0 => v = 0
          /\ g = CarryQueryName(WithChildren(<<t, x, y, j, l>>), r, v)

PushInit ==
    /\ IsPushGraph(nodes)
    /\ leaf = Len(nodes)
    /\ queue = <<>>
    /\ pc = "idle"
    /\ run = 0
    /\ sv = 0
    /\ mapping = NoMap
    /\ sec = FALSE
    /\ input = nodes
    /\ nodes0 = nodes
    /\ last = NoStep
    /\ base_name = NoName
    /\ base_node = 0

PushNext == PushCall \/ PushVisit \/ PushReturn

SpecPush == PushInit /\ [][PushNext]_vars

-----------------------------------------------------------------------------
(* Universe-naming pass: make_universe_naming_consistent *)

\* the value of _res for one column: the mapped table of a column that has a
\* table and whose key is in the mapping, "none" (None) otherwise
NamingLookup(map, col) ==
    IF col.table # NoTable /\ col \in DOMAIN map.map THEN map.map[col] ELSE "none"

\* the loop over the columns with the looked-up table written into the column
NamingColumnsApplied(N, n, map) ==
    [N EXCEPT ![n].cols =
        [i \in 1..Len(@) |->
            IF NamingLookup(map, @[i]) # "none"
            THEN Col(@[i].name, NamingLookup(map, @[i]))
            ELSE @[i]]]

\* the loop over the columns of node n: _res is computed for each column and
\* dropped
NamingColumns(N, n, map) ==
    LET res == [i \in 1..Len(N[n].cols) |-> NamingLookup(map, N[n].cols[i])]
    IN  N

\* the pass is called: base_node starts as the leaf
NameCall ==
    /\ pc \in {"idle", "namedone"}
    /\ run < MaxRuns
    /\ mapping.some
    /\ pc' = "namefind"
    /\ run' = run + 1
    /\ queue' = <<leaf>>
    /\ base_node' = leaf
    /\ nodes0' = nodes
    /\ last' = NoStep
    /\ UNCHANGED <<nodes, leaf, sv, mapping, sec, input, base_name>>

\* first loop: the popped node is not named base_name
NameCheck ==
    /\ pc = "namefind" /\ queue # <<>>
    /\ nodes[Top(queue)].name # base_name
    /\ queue' = Pop(queue) \o nodes[Top(queue)].anc
    /\ last' = [NoStep EXCEPT !.op = "check", !.u = Top(queue)]
    /\ UNCHANGED <<nodes, leaf, pc, run, sv, mapping, sec, input, nodes0,
                   base_name, base_node>>

\* first loop: the popped node is named base_name (break)
NameFound ==
    /\ pc = "namefind" /\ queue # <<>>
    /\ nodes[Top(queue)].name = base_name
    /\ base_node' = Top(queue)
    /\ pc' = "namerewrite"
    /\ queue' = <<Top(queue)>>
    /\ last' = [NoStep EXCEPT !.op = "found", !.u = Top(queue)]
    /\ UNCHANGED <<nodes, leaf, run, sv, mapping, sec, input, nodes0, base_name>>

\* first loop: the work-list is empty, base_node is still the leaf
NameNotFound ==
    /\ pc = "namefind" /\ queue = <<>>
    /\ pc' = "namerewrite"
    /\ queue' = <<base_node>>
    /\ last' = [NoStep EXCEPT !.op = "notfound"]
    /\ UNCHANGED <<nodes, leaf, run, sv, mapping, sec, input, nodes0,
                   base_name, base_node>>

\* second loop: one node_to_rewrite
NameRewrite ==
    /\ pc = "namerewrite" /\ queue # <<>>
    /\ nodes' = NamingColumns(nodes, Top(queue), mapping)
    /\ queue' = Pop(queue) \o nodes[Top(queue)].chl
    /\ last' = [NoStep EXCEPT !.op = "rewrite", !.u = Top(queue)]
    /\ UNCHANGED <<leaf, pc, run, sv, mapping, sec, input, nodes0,
                   base_name, base_node>>

\* second loop: the work-list is empty, the pass returns
NameReturn ==
    /\ pc = "namerewrite" /\ queue = <<>>
    /\ pc' = "namedone"
    /\ UNCHANGED <<nodes, leaf, queue, run, sv, mapping, sec, input, nodes0, last,
                   base_name, base_node>>

\* the inputs of the pass: a graph of the column-push family, a mapping, and
\* as base_name the name of a node of the graph or a name no node has
NameInit ==
    /\ IsPushGraph(nodes)
    /\ leaf = Len(nodes)
    /\ queue = <<>>
    /\ pc = "idle"
    /\ run = 0
    /\ sv = 0
    /\ mapping \in Mappings \ {NoMap}
    /\ sec = FALSE
    /\ input = nodes
    /\ nodes0 = nodes
    /\ last = NoStep
    /\ base_name \in {nodes[i].name : i \in 1..Len(nodes)} \cup {NoName}
    /\ base_node = 0

NameNext ==
    NameCall \/ NameCheck \/ NameFound \/ NameNotFound \/ NameRewrite \/ NameReturn

SpecName == NameInit /\ [][NameNext]_vars

-----------------------------------------------------------------------------
(* All passes *)

Init == MatInit \/ PullInit \/ PushInit \/ NameInit

Next == MatNext \/ PullNext \/ PushNext \/ NameNext

Spec == Init /\ [][Next]_vars

-----------------------------------------------------------------------------
(* Properties of the materialization-insertion pass *)

\* a node inserted by the pass: Identity { materialized: true } named .._matid
IsMatIdentity(N, i) ==
    N[i].kind = "Identity" /\ N[i].mat /\ HasMatidMarker(N[i].name)

\* the three cases of C1 as stated
Covered(N, a) ==
    \/ check_materialized(N, a) = "T"
    \/ IsMatIdentity(N, a)
    \/ N[a].kind = "Reuse" /\ IsMatIdentity(N, N[a].target)

\* the node at the end of the Reuse chain that starts at n
RECURSIVE ChainEnd(_, _)
ChainEnd(N, n) == IF N[n].kind = "Reuse" THEN ChainEnd(N, N[n].target) ELSE n

\* the three cases of C1 with the Reuse chain followed to its end
CoveredThroughChain(N, a) ==
    \/ check_materialized(N, a) = "T"
    \/ IsMatIdentity(N, a)
    \/ N[a].kind = "Reuse" /\ IsMatIdentity(N, ChainEnd(N, a))

SecurityUnions(N, l) == {u \in Reachable(N, l) : IsSecurityUnion(N[u].name)}

\* C1 as stated: when the pass has returned, every immediate ancestor of
\* every security union reachable from the leaf satisfies check_materialized,
\* or is a materialized Identity node named .._matid, or is a Reuse node whose
\* target is such an identity node.
MaterializationCoverage ==
    pc = "matdone" =>
        \A u \in SecurityUnions(nodes, leaf) :
            \A i \in 1..Len(nodes[u].anc) : Covered(nodes, nodes[u].anc[i])

\* C1 (as amended): when the pass has returned, every immediate ancestor of
\* every security union reachable from the leaf satisfies check_materialized,
\* or is a materialized Identity node named .._matid, or is a Reuse node whose
\* target, following the Reuse chain, is such an identity node.
MaterializationCoverageThroughChain ==
    pc = "matdone" =>
        \A u \in SecurityUnions(nodes, leaf) :
            \A i \in 1..Len(nodes[u].anc) :
                CoveredThroughChain(nodes, nodes[u].anc[i])

\* C1 witness: a returned run that put a Reuse node of an identity node above
\* one security union and a Reuse node of that Reuse node above another
MaterializationCoverageWitness ==
    /\ pc = "matdone"
    /\ \E u1 \in SecurityUnions(nodes, leaf) : \E u2 \in SecurityUnions(nodes, leaf) :
          /\ u1 # u2
          /\ \E i \in 1..Len(nodes[u1].anc) : \E j \in 1..Len(nodes[u2].anc) :
                LET a1 == nodes[u1].anc[i]
                    a2 == nodes[u2].anc[j]
                IN  /\ a1 > Len(nodes0) /\ a2 > Len(nodes0)
                    /\ nodes[a1].kind = "Reuse"
                    /\ IsMatIdentity(nodes, nodes[a1].target)
                    /\ nodes[a2].kind = "Reuse"
                    /\ nodes[a2].target = a1

\* C2: a second run of the pass on the graph the first run left creates no
\* new Identity node.
SecondRunInsertsNothing ==
    (pc = "matdone" /\ run = 2) => \A i \in Created : nodes[i].kind # "Identity"

\* C3: every edge is recorded at both ends: c is in p's child list iff p is in
\* c's ancestor list.
EdgeSymmetry ==
    \A p \in 1..Len(nodes) : \A c \in 1..Len(nodes) :
        Contains(nodes[p].chl, c) <=> Contains(nodes[c].anc, p)

UniqueNames(N, l) ==
    \A i \in Reachable(N, l) : \A j \in Reachable(N, l) :
        i # j => N[i].name # N[j].name

\* C7: if the names of the query's nodes are pairwise distinct when the pass
\* is called, they are pairwise distinct when it has returned.
NamesStayUnique ==
    (pc = "matdone" /\ UniqueNames(nodes0, leaf)) => UniqueNames(nodes, leaf)

\* the nodes of the Reuse chain that starts at n
RECURSIVE ReuseChain(_, _)
ReuseChain(N, n) ==
    IF N[n].kind = "Reuse" THEN {n} \cup ReuseChain(N, N[n].target) ELSE {n}

\* a node on the Reuse chain from n has a child named .._matid
ChainHasMatidChild(N, n) ==
    \E t \in ReuseChain(N, n) : \E i \in 1..Len(N[t].chl) :
        HasMatidMarker(N[N[t].chl[i]].name)

\* C8: when the pass works on a security union and an immediate ancestor ar
\* is a Reuse node whose target chain has a child named .._matid, the step
\* creates no Identity node above ar; it creates a Reuse node of an existing
\* .._matid node between ar and the union, and the direct edge is gone.
ReuseInsteadOfIdentity ==
    [][MatVisitUnion =>
        LET u == Top(queue)
        IN  \A i \in 1..Len(nodes[u].anc) :
              LET ar == nodes[u].anc[i]
              IN  (nodes[ar].kind = "Reuse" /\ ChainHasMatidChild(nodes, nodes[ar].target))
                  => /\ \A j \in (Len(nodes) + 1)..Len(nodes') :
                          nodes'[j].kind = "Identity" => ~Contains(nodes'[j].anc, ar)
                     /\ \E j \in (Len(nodes) + 1)..Len(nodes') :
                          /\ nodes'[j].kind = "Reuse"
                          /\ nodes'[j].target <= Len(nodes)
                          /\ HasMatidMarker(nodes[nodes'[j].target].name)
                          /\ nodes'[j].anc = <<ar>>
                          /\ nodes'[j].chl = <<u>>
                          /\ Contains(nodes'[ar].chl, j)
                          /\ Contains(nodes'[u].anc, j)
                     /\ ~Contains(nodes'[u].anc, ar)
                     /\ ~Contains(nodes'[ar].chl, u)]_vars

\* C8 witness: two security unions share a Reuse ancestor; this run gave the
\* first an identity node, and the step just taken gave the second only a
\* Reuse node of that identity node
ReuseInsteadOfIdentityWitness ==
    /\ pc = "mat" /\ run = 1
    /\ last.op = "union"
    /\ last.rewrite = <<>>
    /\ Len(last.reuse) = 1
    /\ last.reuse[1][2] > Len(nodes0)
    /\ IsMatIdentity(nodes, last.reuse[1][2])
    /\ Len(nodes) = last.base + 1
    /\ nodes[Len(nodes)].kind = "Reuse"
    /\ \E u1 \in SecurityUnions(nodes, leaf) :
          u1 # last.u /\ Contains(nodes[u1].anc, last.reuse[1][2])

\* the first-ancestor chain of Project and Filter nodes from n reaches a node
\* named sp_..
RECURSIVE ReachesBoundary(_, _)
ReachesBoundary(N, n) ==
    \/ IsSecurityBoundary(N[n].name)
    \/ /\ N[n].kind \in {"Project", "Filter"}
       /\ N[n].anc # <<>>
       /\ ReachesBoundary(N, N[n].anc[1])

\* C9: check_materialized is false for every node named sp_.. and for every
\* Project or Filter chain that reaches one; a security union with such a
\* Project as immediate ancestor loses the direct edge and gets a new
\* Identity { materialized: true } node named <project>_matid with the
\* Project's columns, the Project as ancestor and the union as child.
BoundaryGetsIdentity ==
    [][/\ \A n \in 1..Len(nodes) :
            ReachesBoundary(nodes, n) => check_materialized(nodes, n) = "F"
       /\ MatVisitUnion =>
            LET u == Top(queue)
            IN  \A i \in 1..Len(nodes[u].anc) :
                  LET ar == nodes[u].anc[i]
                  IN  (nodes[ar].kind = "Project" /\ ReachesBoundary(nodes, ar))
                      => /\ ~Contains(nodes'[u].anc, ar)
                         /\ ~Contains(nodes'[ar].chl, u)
                         /\ \E j \in (Len(nodes) + 1)..Len(nodes') :
                              /\ nodes'[j].kind = "Identity"
                              /\ nodes'[j].mat
                              /\ nodes'[j].name = MatidName(nodes[ar].name)
                              /\ nodes'[j].cols = nodes[ar].cols
                              /\ nodes'[j].anc = <<ar>>
                              /\ nodes'[j].chl = <<u>>
                              /\ Contains(nodes'[u].anc, j)
                              /\ Contains(nodes'[ar].chl, j)]_vars

\* C9 witness: the step just taken put an identity node above a Project that
\* is not named sp_.. itself and whose ancestor is
BoundaryGetsIdentityWitness ==
    /\ last.op = "union"
    /\ \E k \in 1..Len(last.rewrite) :
          LET ar == last.rewrite[k]
          IN  /\ nodes[ar].kind = "Project"
              /\ ~IsSecurityBoundary(nodes[ar].name)
              /\ nodes[ar].anc # <<>>
              /\ IsSecurityBoundary(nodes[nodes[ar].anc[1]].name)
              /\ \E j \in (last.base + 1)..Len(nodes) :
                    nodes[j].name = MatidName(nodes[ar].name) /\ nodes[j].anc = <<ar>>

\* every immediate ancestor of every security union of the query satisfies
\* check_materialized and none is a Reuse node whose target has a .._matid
\* child
AllMaterializedDirect(N, l) ==
    \A u \in SecurityUnions(N, l) : \A i \in 1..Len(N[u].anc) :
        LET ar == N[u].anc[i]
        IN  /\ check_materialized(N, ar) = "T"
            /\ ~(N[ar].kind = "Reuse" /\ FirstMatidChild(N, N[ar].target) # 0)

\* C10: if every immediate ancestor of every security union reachable from
\* the leaf satisfies check_materialized and none of them is a Reuse node
\* whose target has a .._matid child, the pass leaves the graph as it was:
\* the same nodes with the same ancestor and child lists and columns.
MaterializedUnchangedDirect ==
    (pc \in {"mat", "matdone"} /\ AllMaterializedDirect(nodes0, leaf)) => nodes = nodes0

\* C10 witness: a run has returned on a graph in which a security union sits
\* below a Project -> Filter -> Base chain, and below nothing unmaterialized
MaterializedUnchangedWitness ==
    /\ pc = "matdone"
    /\ AllMaterializedDirect(nodes0, leaf)
    /\ \E u \in SecurityUnions(nodes0, leaf) : \E i \in 1..Len(nodes0[u].anc) :
          LET p == nodes0[u].anc[i]
          IN  /\ nodes0[p].kind = "Project" /\ nodes0[p].anc # <<>>
              /\ nodes0[nodes0[p].anc[1]].kind = "Filter"
              /\ nodes0[nodes0[nodes0[p].anc[1]].anc[1]].kind = "Base"

\* C13: when the first run has returned, every identity node it created
\* above a security union of the input graph sits directly on a node of the
\* input graph: between the union and each of its original immediate
\* ancestors there is at most one inserted identity node, however often the
\* union was popped.
RepeatedVisitsHarmless ==
    (pc = "matdone" /\ run = 1) =>
        \A u \in SecurityUnions(nodes0, leaf) :
            \A i \in 1..Len(nodes[u].anc) :
                LET a == nodes[u].anc[i]
                IN  (a \in Created /\ nodes[a].kind = "Identity")
                    => \A k \in 1..Len(nodes[a].anc) : nodes[a].anc[k] \notin Created

-----------------------------------------------------------------------------
(* Properties of the column-pull pass *)

\* C4: a second run of the pass leaves every node's column list as the first
\* run left it.
PullIdempotent ==
    (pc \in {"pull", "pulldone"} /\ run >= 2) =>
        \A n \in 1..Len(nodes) : nodes[n].cols = nodes0[n].cols

\* C4 witness: the second run has returned, and the first run had pulled a
\* column into some node
PullIdempotentWitness ==
    /\ pc = "pulldone" /\ run = 2
    /\ \E n \in 1..Len(nodes) : nodes0[n].cols # input[n].cols

\* column c of node n resolves in arena N: it is in n's own column list or
\* has_column holds of it for an ancestor of n
Resolves(N, n, c) ==
    \/ Contains(N[n].cols, c)
    \/ \E k \in 1..Len(N[n].anc) : has_column(N, N[n].anc[k], c)

\* C5 as stated: when the pass has returned, every column a node references
\* is in the node's own column list or has_column holds of it for some
\* ancestor.
ColumnAvailability ==
    pc = "pulldone" =>
        \A n \in 1..Len(nodes) :
            \A i \in 1..Len(referenced_columns(nodes, n)) :
                Resolves(nodes, n, referenced_columns(nodes, n)[i])

\* C5 (as amended): when the pass has returned, a column a node references
\* is in the node's own column list or has_column holds of it for some
\* ancestor exactly if that was so in the input graph: what resolved still
\* resolves, and what no node above emits is not made to resolve.
ColumnAvailabilityAsInInput ==
    pc = "pulldone" =>
        \A n \in 1..Len(nodes) :
            \A i \in 1..Len(referenced_columns(nodes, n)) :
                LET c == referenced_columns(nodes, n)[i]
                IN  Resolves(nodes, n, c) <=> Resolves(input, n, c)

\* C5 witness: the pass has returned after pulling a column that a node
\* uses and only its ancestors emit, while a node uses another column that
\* resolves nowhere
ColumnAvailabilityWitness ==
    /\ pc = "pulldone"
    /\ \E n \in 1..Len(nodes) : \E i \in 1..Len(nodes[n].refs) :
          /\ ~Contains(nodes[n].cols, nodes[n].refs[i])
          /\ \E k \in 1..Len(nodes[n].anc) :
                Contains(nodes[nodes[n].anc[k]].cols, nodes[n].refs[i])
                /\ ~Contains(input[nodes[n].anc[k]].cols, nodes[n].refs[i])
    /\ \E n \in 1..Len(nodes) : \E i \in 1..Len(nodes[n].refs) :
          /\ nodes[n].anc # <<>>
          /\ nodes[nodes[n].anc[1]].anc # <<>>
          /\ ~Resolves(nodes, n, nodes[n].refs[i])

\* C6: called with sec set and no table mapping the pass panics and the graph
\* is the input graph; with sec unset or a mapping supplied it never panics.
SecureNeedsMapping ==
    /\ pc = "panic" => (sec /\ ~mapping.some /\ nodes = input)
    /\ (run >= 1 /\ sec /\ ~mapping.some) => pc = "panic"

\* C6 witness: the panic, on a graph in which the pass would have pulled a
\* column
SecureNeedsMappingWitness ==
    /\ pc = "panic"
    /\ PullNode(nodes, leaf, NoMap).N # nodes

\* the chain Base(columns [a]) -> Project(columns [a]) ->
\* Filter(references b, columns [a]) -> Leaf, handed to the pass without a
\* table mapping and with sec unset
IsScenarioChain ==
    /\ Len(input) = 4
    /\ input[1].kind = "Base" /\ input[1].cols = <<ColA>>
    /\ input[2].kind = "Project" /\ input[2].cols = <<ColA>> /\ input[2].anc = <<1>>
    /\ input[3].kind = "Filter" /\ input[3].cols = <<ColA>>
    /\ input[3].refs = <<ColB>> /\ input[3].anc = <<2>>
    /\ input[4].kind = "Leaf" /\ input[4].anc = <<3>>
    /\ ~mapping.some /\ ~sec

\* C11 as stated: on the chain the pass leaves the Project with columns
\* [a, b].
ScenarioChainPullsB ==
    (pc = "pulldone" /\ IsScenarioChain) => nodes[2].cols = <<ColA, ColB>>

\* C11 (as amended): on the chain the pass leaves the Project with columns
\* [a]: no node emits b, so there is nothing to pull.
ScenarioChainPullsNothing ==
    (pc = "pulldone" /\ IsScenarioChain) => nodes[2].cols = <<ColA>>

\* C11 witness: the pass has returned on the chain
ScenarioChainWitness ==
    pc = "pulldone" /\ run = 1 /\ IsScenarioChain /\ nodes[3].refs = <<ColB>>

\* in arena M, for every node n reachable from the leaf and every column c
\* it references: if has_column holds of c for an immediate ancestor of n
\* that has an ancestor itself, then c is in the column list of an immediate
\* ancestor of n
ReferencedPulled(M) ==
    \A n \in Reachable(M, leaf) :
        \A i \in 1..Len(referenced_columns(M, n)) :
            LET c == referenced_columns(M, n)[i]
            IN  (\E k \in 1..Len(M[n].anc) :
                    /\ M[M[n].anc[k]].anc # <<>>
                    /\ has_column(M, M[n].anc[k], c))
                => \E k \in 1..Len(M[n].anc) : Contains(M[M[n].anc[k]].cols, c)

\* C15: when a run without a table mapping has returned, for every node n
\* reachable from the leaf and every column c it references: if has_column
\* holds of c for an immediate ancestor of n that has an ancestor itself,
\* then c is in the column list of an immediate ancestor of n. The same
\* holds of the graph the whole loop leaves when run on the input graph.
PulledIntoImmediateAncestor ==
    (pc = "pulldone" /\ ~mapping.some) =>
        /\ ReferencedPulled(nodes)
        /\ ReferencedPulled(PullLoop(input, <<leaf>>, NoMap))

\* C15 witness: a run without a mapping has returned on a graph where node
\* d is the second ancestor of a join and the ancestor of the join's first
\* ancestor x: d was visited before x, gained a column when x was visited,
\* and its own ancestor, which has an ancestor itself, gained that column
\* when d was visited again
PulledIntoImmediateAncestorWitness ==
    /\ pc = "pulldone" /\ ~mapping.some
    /\ \E j \in Reachable(nodes, leaf) :
          /\ Len(nodes[j].anc) = 2
          /\ nodes[nodes[j].anc[1]].anc = <<nodes[j].anc[2]>>
          /\ LET d == nodes[j].anc[2]
             IN  \E i \in 1..Len(nodes[d].cols) :
                    LET c == nodes[d].cols[i]
                    IN  /\ ~Contains(input[d].cols, c)
                        /\ nodes[d].anc # <<>>
                        /\ nodes[nodes[d].anc[1]].anc # <<>>
                        /\ Contains(nodes[nodes[d].anc[1]].cols, c)
                        /\ ~Contains(input[nodes[d].anc[1]].cols, c)

\* the key (name, table qualifier or none) of column c is a key of map
IsKey(map, c) == c \in DOMAIN map.map

\* the columns of a list whose key is not a key of the mapping
Unmapped(cs, map) == SelectSeq(cs, LAMBDA c : ~IsKey(map, c))

\* C16: when the first run with a table mapping has returned, every column a
\* node gained has a key that is not a key of the mapping, and the columns
\* of every node whose key is not in the mapping are, in order, those the
\* run without a mapping leaves on the same input.
MappedColumnsSkipped ==
    (pc = "pulldone" /\ run = 1 /\ mapping.some) =>
        \A n \in 1..Len(nodes) :
            /\ \A i \in 1..Len(nodes[n].cols) :
                  IsKey(mapping, nodes[n].cols[i])
                      => Contains(input[n].cols, nodes[n].cols[i])
            /\ Unmapped(nodes[n].cols, mapping)
                  = Unmapped(PullLoop(input, <<leaf>>, NoMap)[n].cols, mapping)

\* C16 witness: a run with a mapping has returned; the run without a mapping
\* gives some node both a column whose key is in the mapping and one whose
\* key is not, and the node gained only the latter
MappedColumnsSkippedWitness ==
    /\ pc = "pulldone" /\ run = 1 /\ mapping.some
    /\ \E n \in 1..Len(nodes) :
          LET free == PullLoop(input, <<leaf>>, NoMap)[n].cols
          IN  /\ \E i \in 1..Len(free) :
                    /\ IsKey(mapping, free[i])
                    /\ ~Contains(input[n].cols, free[i])
                    /\ ~Contains(nodes[n].cols, free[i])
              /\ \E i \in 1..Len(free) :
                    /\ ~IsKey(mapping, free[i])
                    /\ ~Contains(input[n].cols, free[i])
                    /\ Contains(nodes[n].cols, free[i])

-----------------------------------------------------------------------------
(* Properties of the column-push pass *)

\* C12: while the pass runs and when it has returned, the leaf and every
\* node with the leaf's versioned name have the column list they had in the
\* input graph.
LeafProtection ==
    pc \in {"push", "pushdone"} =>
        \A n \in 1..Len(nodes) :
            versioned_name(nodes[n]) = versioned_name(nodes[leaf])
                => nodes[n].cols = input[n].cols

\* C12 witness: the pass has returned after pushing a column into some node,
\* and the leaf, and another node carrying the leaf's versioned name, each
\* have a parent with a column they lack
LeafProtectionWitness ==
    /\ pc = "pushdone"
    /\ \E n \in 1..Len(nodes) : nodes[n].cols # input[n].cols
    /\ \E n \in 1..Len(nodes) :
          /\ n # leaf
          /\ versioned_name(nodes[n]) = versioned_name(nodes[leaf])
          /\ \E k \in 1..Len(nodes[n].anc) : \E i \in 1..Len(nodes[nodes[n].anc[k]].cols) :
                ~Contains(nodes[n].cols, nodes[nodes[n].anc[k]].cols[i])
    /\ \E k \in 1..Len(nodes[leaf].anc) : nodes[nodes[leaf].anc[k]].cols # <<>>

-----------------------------------------------------------------------------
(* Properties of the universe-naming pass *)

\* C14: while the pass runs and when it has returned, the arena is the input
\* arena: every node has the name, columns, ancestors and children it had.
NamingChangesNothing ==
    pc \in {"namefind", "namerewrite", "namedone"} => nodes = input

\* C14 witness: the pass has returned after finding a base node above the
\* leaf, and a node below the base node emits a column whose key the
\* mapping holds
NamingChangesNothingWitness ==
    /\ pc = "namedone"
    /\ base_node # leaf
    /\ nodes[base_node].name = base_name
    /\ \E n \in 1..Len(nodes) :
          /\ base_node \in Reachable(nodes, n)
          /\ \E i \in 1..Len(nodes[n].cols) :
                NamingLookup(mapping, nodes[n].cols[i]) # "none"

-----------------------------------------------------------------------------
(* Termination of the materialization pass *)

\* an iteration on a regenerating node leaves a regenerating node on top of
\* the work-list: a run that is in this situation stays in it
RegenerationPersists ==
    [][(Regenerating /\ MatVisitUnion) => Regenerating']_vars

\* C17: the work-list becomes empty on every acyclic graph. A run that has
\* to insert a node above a node it inserted itself has to do so again at
\* every later iteration (RegenerationPersists) and never empties its
\* work-list, so termination requires that no run reaches that situation.
MatTerminates == ~Regenerating

\* C17 witness of the failure: in the first run on an input graph the loop
\* is at a node it inserted above a node that it inserted as well, both
\* carrying the same name, and inserts a third
MatRegeneratesWitness ==
    /\ Regenerating /\ run = 1
    /\ \E i \in 1..Len(nodes[Top(queue)].chl) :
          /\ nodes[Top(queue)].chl[i] \in Created
          /\ nodes[nodes[Top(queue)].chl[i]].name = nodes[Top(queue)].name

-----------------------------------------------------------------------------
(* Failure of check_materialized *)

\* a Project or Filter node without ancestors whose name does not carry the
\* security-boundary marker
Unrooted(N, n) ==
    /\ N[n].kind \in {"Project", "Filter"}
    /\ N[n].anc = <<>>
    /\ ~IsSecurityBoundary(N[n].name)

\* the loop is at a security union and classifies an unrooted node as one of
\* its ancestors
ClassifiesUnrooted ==
    /\ pc = "mat" /\ queue # <<>>
    /\ IsSecurityUnion(nodes[Top(queue)].name)
    /\ \E i \in 1..Len(nodes[Top(queue)].anc) :
          /\ ReuseHit(nodes, nodes[Top(queue)].anc[i]) = 0
          /\ Unrooted(nodes, nodes[Top(queue)].anc[i])

\* C18: check_materialized returns neither true nor false for a Project or
\* Filter node without ancestors whose name lacks the `sp_` marker; a run
\* that classifies such a node as the ancestor of a security union aborts
\* at that step and never completes.
UnrootedClassificationAborts ==
    [][/\ \A n \in 1..Len(nodes) :
            Unrooted(nodes, n) => check_materialized(nodes, n) = "P"
       /\ ClassifiesUnrooted => pc' = "panic"
       /\ pc = "panic" => pc' = "panic"]_vars

\* C18 witness: a run has aborted at a security union that has a Project or
\* Filter node without ancestors among its ancestors
UnrootedClassificationAbortsWitness ==
    /\ pc = "panic" /\ last.op = "panic"
    /\ \E i \in 1..Len(nodes[last.u].anc) :
          Unrooted(nodes, nodes[last.u].anc[i])

-----------------------------------------------------------------------------
(* Frame of the column-pull pass *)

\* the columns of `after` behind the first Len(before) ones
Gained(before, after) == SubSeq(after, Len(before) + 1, Len(after))

\* node n of arena M is node n of arena N with columns appended that its
\* list did not contain, each once; a node without ancestors is the same
GrownFrom(N, M, n) ==
    /\ M[n] = [N[n] EXCEPT !.cols = M[n].cols]
    /\ Len(M[n].cols) >= Len(N[n].cols)
    /\ SubSeq(M[n].cols, 1, Len(N[n].cols)) = N[n].cols
    /\ \A i \in (Len(N[n].cols) + 1)..Len(M[n].cols) :
          \A j \in 1..(i - 1) : M[n].cols[j] # M[n].cols[i]
    /\ N[n].anc = <<>> => M[n].cols = N[n].cols

\* C19: every step of the pass keeps the set of nodes, their names, kinds,
\* ancestor and child lists and the columns of nodes without ancestors; the
\* column list of a node with an ancestor changes only by appending columns
\* it did not contain; no column is removed.
PullFrame ==
    [][/\ Len(nodes') = Len(nodes)
       /\ \A n \in 1..Len(nodes) : GrownFrom(nodes, nodes', n)]_vars

\* C19 witness: a run has returned in which a node that is listed twice as
\* an ancestor of one node gained a column
PullFrameWitness ==
    /\ pc = "pulldone"
    /\ \E n \in 1..Len(nodes) : \E m \in 1..Len(nodes) :
          /\ nodes[m].anc = <<n, n>>
          /\ Gained(input[n].cols, nodes[n].cols) # <<>>

-----------------------------------------------------------------------------
(* has_column across the column-pull pass *)

\* C20: at every point of a run of the pass has_column has, for every node
\* and every column, the value it has on the input graph; a column a node
\* uses that no ancestor emits in the input graph is emitted by no ancestor
\* afterwards.
HasColumnPreserved ==
    pc \in {"pull", "pulldone"} =>
        \A n \in 1..Len(nodes) : \A c \in {ColA, ColB} :
            has_column(nodes, n, c) = has_column(input, n, c)

\* C20 witness: a run has returned in which a node gained a column while a
\* node below it uses a column that has_column finds for none of its
\* ancestors, before and after
HasColumnPreservedWitness ==
    /\ pc = "pulldone"
    /\ \E n \in 1..Len(nodes) : nodes[n].cols # input[n].cols
    /\ \E m \in Reachable(nodes, leaf) : \E c \in {ColA, ColB} :
          /\ Contains(referenced_columns(input, m), c)
          /\ input[m].anc # <<>>
          /\ \A k \in 1..Len(input[m].anc) :
                /\ ~has_column(input, input[m].anc[k], c)
                /\ ~has_column(nodes, nodes[m].anc[k], c)

=============================================================================
